---------------------------- MODULE Spec2Model ----------------------------
(***************************************************************************)
(* Maryland Case Viewer: the column mapper and the filter engine of the    *)
(* two dashboard variants,                                                 *)
(*   "maryland" = case_viewer_maryland.py (Streamlit) and                  *)
(*   "modern"   = modern_case_viewer.py   (NiceGUI).                       *)
(*                                                                         *)
(* Text is a sequence of one-character strings, so that strip, lower,      *)
(* title, substring tests, amount and date parsing and the formatting of   *)
(* the display values are computed character by character, as the code     *)
(* computes them.  Dictionary keys (the semantic field keys) are plain     *)
(* strings: the code never looks inside them.                              *)
(***************************************************************************)
EXTENDS Integers, Sequences, FiniteSets, TLC

(***************************************************************************)
(* Characters and the str methods the code uses.                           *)
(***************************************************************************)
UpperCase == <<"A","B","C","D","E","F","G","H","I","J","K","L","M",
               "N","O","P","Q","R","S","T","U","V","W","X","Y","Z">>

LowerCase == <<"a","b","c","d","e","f","g","h","i","j","k","l","m",
               "n","o","p","q","r","s","t","u","v","w","x","y","z">>

Digits == <<"0","1","2","3","4","5","6","7","8","9">>

Range(s) == {s[i] : i \in DOMAIN s}

IsUpper(c) == c \in Range(UpperCase)

IsLower(c) == c \in Range(LowerCase)

IsAlpha(c) == IsUpper(c) \/ IsLower(c)

IsDigit(c) == c \in Range(Digits)

IsSpace(c) == c \in {" ", "\n", "\t"}

IndexIn(s, c) == CHOOSE i \in DOMAIN s : s[i] = c

DigitVal(c) == IndexIn(Digits, c) - 1

LowerChar(c) == IF IsUpper(c) THEN LowerCase[IndexIn(UpperCase, c)] ELSE c

UpperChar(c) == IF IsLower(c) THEN UpperCase[IndexIn(LowerCase, c)] ELSE c

\* a sequence given element by element, as the tuple of its elements (TLC
\* then computes every element once)
Tuple(f) == SubSeq(f, 1, Len(f))

\* str.lower()
lower(s) == Tuple([i \in DOMAIN s |-> LowerChar(s[i])])

\* str.title(): the first letter of every run of letters upper-cased, the
\* other letters lower-cased.
title(s) ==
  Tuple([i \in DOMAIN s |->
           IF i > 1 /\ IsAlpha(s[i - 1]) THEN LowerChar(s[i]) ELSE UpperChar(s[i])])

RECURSIVE lstrip(_)
lstrip(s) == IF s # <<>> /\ IsSpace(Head(s)) THEN lstrip(Tail(s)) ELSE s

RECURSIVE rstrip(_)
rstrip(s) ==
  IF s # <<>> /\ IsSpace(s[Len(s)]) THEN rstrip(SubSeq(s, 1, Len(s) - 1)) ELSE s

\* str.strip()
strip(s) == rstrip(lstrip(s))

\* str.replace(a, b) for one-character a and b
replace(s, a, b) == Tuple([i \in DOMAIN s |-> IF s[i] = a THEN b ELSE s[i]])

\* the Python test `sub in s`
Contains(s, sub) ==
  \E i \in 1..(Len(s) - Len(sub) + 1) : SubSeq(s, i, i + Len(sub) - 1) = sub

\* re.sub(r"[^...]", "", s): the characters of s that satisfy Keep
RECURSIVE KeepOnly(_, _)
KeepOnly(s, keep) ==
  IF s = <<>> THEN <<>>
  ELSE IF Head(s) \in keep THEN <<Head(s)>> \o KeepOnly(Tail(s), keep)
  ELSE KeepOnly(Tail(s), keep)

\* int(s) of a sequence of digits
RECURSIVE DigitsToNat(_)
DigitsToNat(s) ==
  IF s = <<>> THEN 0
  ELSE 10 * DigitsToNat(SubSeq(s, 1, Len(s) - 1)) + DigitVal(s[Len(s)])

\* str(n) of a natural number
RECURSIVE NatToDigits(_)
NatToDigits(n) ==
  IF n < 10 THEN <<Digits[n + 1]>>
  ELSE NatToDigits(n \div 10) \o <<Digits[(n % 10) + 1]>>

\* a natural number zero-padded on the left to at least w digits (%02d, %04d)
RECURSIVE ZeroPad(_, _)
ZeroPad(s, w) == IF Len(s) >= w THEN s ELSE ZeroPad(<<"0">> \o s, w)

AllDigits(s) == \A i \in DOMAIN s : IsDigit(s[i])

\* s.split(sep) for a one-character sep
RECURSIVE Split(_, _)
Split(s, sep) ==
  IF \A i \in DOMAIN s : s[i] # sep THEN <<s>>
  ELSE LET k == CHOOSE i \in DOMAIN s :
                  s[i] = sep /\ \A j \in 1..(i - 1) : s[j] # sep
       IN  <<SubSeq(s, 1, k - 1)>> \o Split(SubSeq(s, k + 1, Len(s)), sep)

(***************************************************************************)
(* normalize_columns                                                       *)
(***************************************************************************)
normalize_column(c) == replace(replace(lower(strip(c)), "\n", " "), " ", "_")

normalize_columns(cols) == Tuple([i \in DOMAIN cols |-> normalize_column(cols[i])])

(***************************************************************************)
(* parse_amount.  The float is kept exactly as a sign and a number of      *)
(* cents; digits after the second decimal are dropped, which changes       *)
(* neither a comparison with a whole-dollar threshold nor, for cells of    *)
(* at most two decimals, the two-decimal rendering.                        *)
(***************************************************************************)
AmountChars == Range(Digits) \cup {".", "-"}

Zero == [neg |-> FALSE, cents |-> 0]

\* float(s) for s over digits, "." and "-": [ok, neg, cents]
float(s) ==
  LET neg  == s # <<>> /\ Head(s) = "-"
      body == IF neg THEN Tail(s) ELSE s
      parts == Split(body, ".")
      ip == parts[1]
      fp == IF Len(parts) = 2 THEN parts[2] ELSE <<>>
      ok == /\ Len(parts) <= 2
            /\ AllDigits(ip) /\ AllDigits(fp)
            /\ Len(ip) + Len(fp) >= 1
      fp2 == SubSeq(fp \o <<"0","0">>, 1, 2)
  IN  IF ok THEN [ok |-> TRUE, neg |-> neg,
                  cents |-> 100 * DigitsToNat(ip) + DigitsToNat(fp2)]
      ELSE [ok |-> FALSE, neg |-> FALSE, cents |-> 0]

parse_amount(s) ==
  LET f == float(KeepOnly(s, AmountChars))
  IN  IF f.ok THEN [neg |-> f.neg, cents |-> f.cents] ELSE Zero

\* d["_amount_num"] >= val, for a whole-dollar val >= 0
AmountAtLeast(a, val) ==
  IF a.neg THEN a.cents = 0 /\ val = 0 ELSE a.cents >= 100 * val

\* the "," grouping of format spec ",": digits in groups of three
RECURSIVE Grouped(_)
Grouped(ds) ==
  IF Len(ds) <= 3 THEN ds
  ELSE Grouped(SubSeq(ds, 1, Len(ds) - 3)) \o <<",">>
       \o SubSeq(ds, Len(ds) - 2, Len(ds))

\* f"${x:,.2f}"
FormatCurrency(a) ==
  <<"$">> \o (IF a.neg THEN <<"-">> ELSE <<>>)
  \o Grouped(NatToDigits(a.cents \div 100)) \o <<".">>
  \o ZeroPad(NatToDigits(a.cents % 100), 2)

(***************************************************************************)
(* parse_date_flexible.  A date is <<year, month, day>>; None, the Python  *)
(* None, is the empty tuple.                                               *)
(***************************************************************************)
None == <<>>

IsLeap(y) == (y % 4 = 0 /\ y % 100 # 0) \/ y % 400 = 0

DaysInMonth(y, m) ==
  IF m = 2 THEN (IF IsLeap(y) THEN 29 ELSE 28)
  ELSE IF m \in {4, 6, 9, 11} THEN 30 ELSE 31

\* datetime.date(y, m, d) accepts the triple
ValidDate(y, m, d) ==
  /\ y \in 1..9999
  /\ m \in 1..12
  /\ d \in 1..DaysInMonth(y, m)

\* one directive of a strptime format against one field: the value, or -1
\* when the field does not match the directive's pattern.
\*   m: 1[0-2]|0[1-9]|[1-9]      d: 3[01]|[12]\d|0[1-9]|[1-9]
\*   Y: \d\d\d\d                  y: \d\d  (00-68 -> 20xx, 69-99 -> 19xx)
Directive(dir, field) ==
  IF ~AllDigits(field) \/ field = <<>> THEN -1
  ELSE LET v == DigitsToNat(field)
       IN  CASE dir = "m" -> IF Len(field) <= 2 /\ v \in 1..12 THEN v ELSE -1
             [] dir = "d" -> IF Len(field) <= 2 /\ v \in 1..31 THEN v ELSE -1
             [] dir = "Y" -> IF Len(field) = 4 THEN v ELSE -1
             [] dir = "y" -> IF Len(field) # 2 THEN -1
                             ELSE IF v <= 68 THEN 2000 + v ELSE 1900 + v

\* datetime.datetime.strptime(s, f).date() for a format of three directives
\* joined by one separator; None stands for the ValueError
strptime(s, f) ==
  LET fields == Split(s, f.sep)
  IN  IF Len(fields) # 3 THEN None
      ELSE LET v == [i \in 1..3 |-> Directive(f.dirs[i], fields[i])]
           IN  IF \E i \in 1..3 : v[i] = -1 THEN None
               ELSE LET y == v[CHOOSE i \in 1..3 : f.dirs[i] \in {"Y", "y"}]
                        m == v[CHOOSE i \in 1..3 : f.dirs[i] = "m"]
                        d == v[CHOOSE i \in 1..3 : f.dirs[i] = "d"]
                    IN  IF ValidDate(y, m, d) THEN <<y, m, d>> ELSE None

\* fmts = ["%m/%d/%Y", "%m/%d/%y", "%Y-%m-%d", "%Y/%m/%d", "%m-%d-%Y"]
fmts == << [dirs |-> <<"m", "d", "Y">>, sep |-> "/"],
           [dirs |-> <<"m", "d", "y">>, sep |-> "/"],
           [dirs |-> <<"Y", "m", "d">>, sep |-> "-"],
           [dirs |-> <<"Y", "m", "d">>, sep |-> "/"],
           [dirs |-> <<"m", "d", "Y">>, sep |-> "-"] >>

\* pd.to_datetime(s, errors="coerce") on the text that reaches it, i.e. text
\* that no format of fmts accepts: the generic parser reads a slash-delimited
\* D/M/YYYY whose first field cannot be a month day-first, and gives NaT
\* (None here) for text that is no date.
to_datetime(s) ==
  LET f == Split(s, "/")
  IN  IF Len(f) # 3 THEN None
      ELSE LET d == Directive("d", f[1])
               m == Directive("m", f[2])
               y == Directive("Y", f[3])
           IN  IF -1 \in {d, m, y} THEN None
               ELSE IF d > 12 /\ ValidDate(y, m, d) THEN <<y, m, d>> ELSE None

RECURSIVE TryFormats(_, _)
TryFormats(s, i) ==
  IF i > Len(fmts) THEN to_datetime(s)
  ELSE LET r == strptime(s, fmts[i])
       IN  IF r # None THEN r ELSE TryFormats(s, i + 1)

parse_date_flexible(v) ==
  LET s == strip(v)
  IN  IF s = <<>> THEN None ELSE TryFormats(s, 1)

\* x.strftime("%Y-%m-%d")
strftime(x) ==
  ZeroPad(NatToDigits(x[1]), 4) \o <<"-">> \o ZeroPad(NatToDigits(x[2]), 2)
  \o <<"-">> \o ZeroPad(NatToDigits(x[3]), 2)

\* x <= y on dates
DateLE(x, y) ==
  \/ x[1] < y[1]
  \/ x[1] = y[1] /\ x[2] < y[2]
  \/ x[1] = y[1] /\ x[2] = y[2] /\ x[3] <= y[3]

(***************************************************************************)
(* Python dicts keep insertion order: a dict is a sequence of <<key,       *)
(* value>> pairs.  Assigning to a key that is present replaces its value   *)
(* in place; assigning to a new key appends.                               *)
(***************************************************************************)
Keys(m) == {m[i][1] : i \in DOMAIN m}

\* m.get(k): the value, or None
Get(m, k) ==
  IF k \in Keys(m) THEN m[CHOOSE i \in DOMAIN m : m[i][1] = k][2] ELSE None

\* the truth value of m.get(k): the key is present with a non-empty value
Mapped(m, k) == Get(m, k) # <<>>

\* m[k] = v
DictSet(m, k, v) ==
  IF k \in Keys(m)
  THEN [i \in DOMAIN m |-> IF m[i][1] = k THEN <<k, v>> ELSE m[i]]
  ELSE Append(m, <<k, v>>)

(***************************************************************************)
(* The table: pd.DataFrame(data[1:], columns=data[0]), a record of its     *)
(* columns and its data rows.  Rows keep their                             *)
(* index (1..n here) through every selection d = d[mask], which is a       *)
(* SelectSeq on the sequence of the remaining indices.                     *)
(***************************************************************************)
NoFrame == [columns |-> <<>>, data |-> <<>>]

Index(frame) == [i \in 1..Len(frame.data) |-> i]

ColumnOf(frame, name) == CHOOSE j \in DOMAIN frame.columns : frame.columns[j] = name

\* frame[name][i]
Cell(frame, i, name) == frame.data[i][ColumnOf(frame, name)]

(***************************************************************************)
(* load_and_map: the substring rules, tried on every normalized header in  *)
(* header order; every rule a header satisfies assigns that header.        *)
(***************************************************************************)
S_case == <<"c","a","s","e">>
S_num == <<"n","u","m">>
S_number == <<"n","u","m","b","e","r">>
S_status == <<"s","t","a","t","u","s">>
S_amount == <<"a","m","o","u","n","t">>
S_judgment == <<"j","u","d","g","m","e","n","t">>
S_date == <<"d","a","t","e">>
S_court == <<"c","o","u","r","t">>
S_type == <<"t","y","p","e">>
S_link == <<"l","i","n","k">>
S_url == <<"u","r","l">>
S_address == <<"a","d","d","r","e","s","s">>

\* the keys in the order of the if statements of the loop body
RuleOrder == <<"case_number", "case_status", "judgment_amount", "entry_date",
               "court_system", "case_type", "case_link", "address">>

Rule(k, c) ==
  CASE k = "case_number" ->
         Contains(c, S_case) /\ (Contains(c, S_num) \/ Contains(c, S_number))
    [] k = "case_status" -> Contains(c, S_status)
    [] k = "judgment_amount" -> Contains(c, S_amount) \/ Contains(c, S_judgment)
    [] k = "entry_date" -> Contains(c, S_date)
    [] k = "court_system" -> Contains(c, S_court)
    [] k = "case_type" -> Contains(c, S_type)
    [] k = "case_link" -> Contains(c, S_link) \/ Contains(c, S_url)
    [] k = "address" -> Contains(c, S_address)

\* a mis-assignment that keeps the first header found for a key
AssignFirst(m, k, c) == IF k \in Keys(m) THEN m ELSE Append(m, <<k, c>>)

\* mapping[k] = c
Assign(m, k, c) == DictSet(m, k, c)

\* the body of `for c in norm_cols`, from its r-th if statement on; the
\* mapping after one statement is bound as a value before the next runs
RECURSIVE MapHeader(_, _, _)
MapHeader(m, c, r) ==
  IF r > Len(RuleOrder) THEN m
  ELSE CHOOSE done \in
         { MapHeader(m1, c, r + 1) :
             m1 \in {IF Rule(RuleOrder[r], c) THEN Assign(m, RuleOrder[r], c) ELSE m} } :
         TRUE

\* the loop `for c in norm_cols`, from the i-th header on
RECURSIVE MapHeaders(_, _, _)
MapHeaders(m, cols, i) ==
  IF i > Len(cols) THEN m
  ELSE CHOOSE done \in
         { MapHeaders(m1, cols, i + 1) : m1 \in {MapHeader(m, cols[i], 1)} } : TRUE

\* load_and_map(): <<df, mapping>> for the grid the download returned
load_and_map(data) ==
  CHOOSE loaded \in
    { << [columns |-> norm_cols, data |-> Tail(data)],
         MapHeaders(<<>>, norm_cols, 1) >> :
        norm_cols \in {normalize_columns(data[1])} } : TRUE

(***************************************************************************)
(* The filter controls.  A criteria record holds the values the widgets    *)
(* have when "Apply Filters" is pressed: status, court, type and amount    *)
(* are option texts, start and end are dates or None.                      *)
(***************************************************************************)
S_All == <<"A","l","l">>
S_Entered == <<"E","n","t","e","r","e","d">>
S_Renewed == <<"R","e","n","e","w","e","d">>
S_Unsatisfied == <<"U","n","s","a","t","i","s","f","i","e","d">>

ALLOWED_CASE_STATUSES == <<S_Entered, S_Renewed, S_Unsatisfied>>

status_values == <<S_All>> \o ALLOWED_CASE_STATUSES

amount_opts == << S_All,
                  <<">","="," ","$","1","0",",","0","0","0">>,
                  <<">","="," ","$","2","5",",","0","0","0">>,
                  <<">","="," ","$","5","0",",","0","0","0">>,
                  <<">","="," ","$","1","0","0",",","0","0","0">> >>

\* the canonical order of the display fields
order == <<"case_number", "case_status", "judgment_amount", "entry_date",
           "court_system", "case_type", "address", "case_link">>

\* int(re.sub(r"[^\d]", "", amount_select))
Threshold(amount_select) == DigitsToNat(KeepOnly(amount_select, Range(Digits)))

\* the distinct values of a mapped column offered by a select box, after
\* "All": maryland strips them, modern offers them as they are
OptionValues(v, frame, m, k) ==
  IF ~Mapped(m, k) THEN {}
  ELSE {IF v = "maryland" THEN strip(Cell(frame, i, Get(m, k)))
        ELSE Cell(frame, i, Get(m, k)) : i \in DOMAIN frame.data}

\* the test shared by the court and the type filter:
\* cell.strip().lower() == str(selected).strip().lower()
SameText(cell, selected) == lower(strip(cell)) = lower(strip(selected))

\* the "Judgment amount filter" step of both variants, on the remaining rows d
AmountFilter(d, amount_num, amount_select) ==
  IF amount_select # S_All
  THEN SelectSeq(d, LAMBDA i : AmountAtLeast(amount_num[i], Threshold(amount_select)))
  ELSE d

\* the court or type filter step of both variants, for key k and selection sel
TextFilter(d, frame, m, k, sel) ==
  IF sel # S_All /\ Mapped(m, k)
  THEN SelectSeq(d, LAMBDA i : SameText(Cell(frame, i, Get(m, k)), sel))
  ELSE d

\* d["_amount_num"]: the parsed amount of every row, 0.0 without the column
AmountColumn(frame, m) ==
  [i \in DOMAIN frame.data |->
     IF Mapped(m, "judgment_amount")
     THEN parse_amount(Cell(frame, i, Get(m, "judgment_amount"))) ELSE Zero]

\* d["_entry_date_parsed"] where the date column is mapped
DateColumn(frame, m) ==
  [i \in DOMAIN frame.data |->
     parse_date_flexible(Cell(frame, i, Get(m, "entry_date")))]

(***************************************************************************)
(* case_viewer_maryland.py                                                 *)
(***************************************************************************)
\* a normalization that reaches every column of the table
normalize_all_columns(frame, m) ==
  [frame EXCEPT !.data =
     [i \in DOMAIN frame.data |->
        [j \in DOMAIN frame.data[i] |-> lower(strip(frame.data[i][j]))]]]

\* "Normalize case_status column", run once right after the load
normalize_case_status(frame, m) ==
  IF ~Mapped(m, "case_status") THEN frame
  ELSE LET c == ColumnOf(frame, Get(m, "case_status"))
       IN  [frame EXCEPT !.data =
              [i \in DOMAIN frame.data |->
                 [frame.data[i] EXCEPT ![c] = lower(strip(frame.data[i][c]))]]]

\* the keys in the order an iteration over the mapping meets them
MappingOrderKeys(m) == [i \in DOMAIN m |-> m[i][1]]

\* the loop `for k in order: if mapping.get(k)`: the displayed keys
DisplayKeys(m) == SelectSeq(order, LAMBDA k : Mapped(m, k))

S_ViewCaseOpen == <<"[","V","i","e","w"," ","C","a","s","e","]","(">>

\* the "Format ..." steps of apply_filters on one cell of d_display
FormatMaryland(k, x) ==
  CASE k = "judgment_amount" -> FormatCurrency(parse_amount(x))
    [] k = "entry_date" -> x  \* a cell is text, never a date: str(x)
    [] k = "case_link" ->
         IF strip(x) # <<>> THEN S_ViewCaseOpen \o x \o <<")">> ELSE <<>>
    [] OTHER -> x

\* apply_filters(df) with the widgets at c
apply_filters(frame, m, c) ==
  LET amount_num == AmountColumn(frame, m)
      entry_date_parsed ==
        IF Mapped(m, "entry_date") THEN DateColumn(frame, m)
        ELSE [i \in DOMAIN frame.data |-> None]
      d0 == Index(frame)
      d1 == IF c.status # S_All /\ Mapped(m, "case_status")
            THEN SelectSeq(d0, LAMBDA i :
                   Cell(frame, i, Get(m, "case_status")) = lower(strip(c.status)))
            ELSE d0
      d2 == TextFilter(d1, frame, m, "court_system", c.court)
      d3 == TextFilter(d2, frame, m, "case_type", c.type)
      d4 == AmountFilter(d3, amount_num, c.amount)
      any == \E j \in DOMAIN d4 : entry_date_parsed[d4[j]] # None
      d5 == IF any /\ c.start # None
            THEN SelectSeq(d4, LAMBDA i :
                   entry_date_parsed[i] # None /\ DateLE(c.start, entry_date_parsed[i]))
            ELSE d4
      d6 == IF any /\ c.end # None
            THEN SelectSeq(d5, LAMBDA i :
                   entry_date_parsed[i] # None /\ DateLE(entry_date_parsed[i], c.end))
            ELSE d5
      display_keys == DisplayKeys(m)
  IN  [ raised |-> FALSE,
        kept |-> d6,
        columns |-> display_keys,
        rows |-> [j \in DOMAIN d6 |->
                   [n \in DOMAIN display_keys |->
                      << Get(m, display_keys[n]),
                         FormatMaryland(display_keys[n],
                                        Cell(frame, d6[j], Get(m, display_keys[n]))) >>]] ]

(***************************************************************************)
(* modern_case_viewer.py                                                   *)
(***************************************************************************)
S_AnchorOpen == <<"<a href='">>
S_AnchorClose == <<"' target='_blank' class='text-indigo-600 underline'>View Case</a>">>

\* the per-key formatting inside the row loop of apply_filters_handler
FormatModern(key, val) ==
  CASE key = "judgment_amount" -> FormatCurrency(parse_amount(val))
    [] key = "entry_date" ->
         LET parsed == parse_date_flexible(val)
         IN  IF parsed # None THEN strftime(parsed) ELSE <<>>
    [] key = "case_link" ->
         IF strip(val) = <<>> THEN <<>> ELSE S_AnchorOpen \o val \o S_AnchorClose
    [] OTHER -> val

\* the loop `for key, col in mapping.items()` from the n-th item on, for row i
RECURSIVE RowItems(_, _, _, _, _)
RowItems(r, frame, m, i, n) ==
  IF n > Len(m) THEN r
  ELSE CHOOSE done \in
         { RowItems(r1, frame, m, i, n + 1) :
             r1 \in {IF m[n][2] = <<>> THEN r
                     ELSE DictSet(r, m[n][1],
                                  FormatModern(m[n][1], Cell(frame, i, m[n][2])))} } :
         TRUE

\* a fallback stored under a key of its own
RowIdFallback(r, row) ==
  IF "case_number" \notin Keys(r) \/ Get(r, "case_number") = <<>>
  THEN DictSet(r, "row_id", SubSeq(row[1], 1, IF Len(row[1]) < 30 THEN Len(row[1]) ELSE 30))
  ELSE r

\* if "case_number" not in r or r.get("case_number") in (None, ""):
\*     r["case_number"] = str(row.tolist()[0])[:30]
RowKeyFallback(r, row) ==
  IF "case_number" \notin Keys(r) \/ Get(r, "case_number") = <<>>
  THEN DictSet(r, "case_number",
               SubSeq(row[1], 1, IF Len(row[1]) < 30 THEN Len(row[1]) ELSE 30))
  ELSE r

\* one dict r of the list rows
ModernRow(frame, m, i) == RowKeyFallback(RowItems(<<>>, frame, m, i, 1), frame.data[i])

\* the court or type filter of the handler: `cs and cs != "All"`
ModernTextFilter(d, frame, m, k, sel) ==
  IF sel # <<>> THEN TextFilter(d, frame, m, k, sel) ELSE d

\* apply_filters_handler() with the widgets at c.  Without a mapped date
\* column d["_entry_date_parsed"] is NaT in every row, and the lambda compares
\* NaT with a datetime.date: nat is how the installed pandas answers that,
\* "raises" (TypeError, pandas 2) or "false" (pandas 1).
apply_filters_handler(frame, m, c, nat, cols) ==
  LET amount_num == AmountColumn(frame, m)
      dated == Mapped(m, "entry_date")
      entry_date_parsed == IF dated THEN DateColumn(frame, m) ELSE <<>>
      d0 == Index(frame)
      d1 == IF Mapped(m, "case_status") /\ c.status # <<>> /\ c.status # S_All
            THEN SelectSeq(d0, LAMBDA i :
                   title(strip(Cell(frame, i, Get(m, "case_status")))) = c.status)
            ELSE d0
      d2 == ModernTextFilter(d1, frame, m, "court_system", c.court)
      d3 == ModernTextFilter(d2, frame, m, "case_type", c.type)
      d4 == IF c.amount # <<>> THEN AmountFilter(d3, amount_num, c.amount) ELSE d3
      d5 == IF c.start = None THEN d4
            ELSE IF dated
            THEN SelectSeq(d4, LAMBDA i :
                   entry_date_parsed[i] # None /\ DateLE(c.start, entry_date_parsed[i]))
            ELSE <<>>
      d6 == IF c.end = None THEN d5
            ELSE IF dated
            THEN SelectSeq(d5, LAMBDA i :
                   entry_date_parsed[i] # None /\ DateLE(entry_date_parsed[i], c.end))
            ELSE <<>>
      raised == /\ ~dated
                /\ nat = "raises"
                /\ \/ c.start # None /\ d4 # <<>>
                   \/ c.end # None /\ d5 # <<>>
  IN  IF raised
      THEN [raised |-> TRUE, kept |-> <<>>, columns |-> cols, rows |-> <<>>]
      ELSE [raised |-> FALSE, kept |-> d6, columns |-> cols,
            rows |-> [j \in DOMAIN d6 |-> ModernRow(frame, m, d6[j])]]

(***************************************************************************)
(* The spreadsheets the model loads.  A header entry is a raw header text  *)
(* h with the field f of a palette row that supplies the cells under it;   *)
(* a palette row is one spreadsheet row, by field.                         *)
(***************************************************************************)
H_CaseNumber ==
  [h |-> <<"C","a","s","e"," ","N","u","m","b","e","r">>, f |-> "num"]

H_Status ==
  [h |-> <<"S","t","a","t","u","s">>, f |-> "status"]

H_Amount ==
  [h |-> <<"J","u","d","g","m","e","n","t"," ","A","m","o","u","n","t">>, f |-> "amount"]

H_Date ==
  [h |-> <<"E","n","t","r","y"," ","D","a","t","e">>, f |-> "date"]

H_Court ==
  [h |-> <<"C","o","u","r","t">>, f |-> "court"]

H_Type ==
  [h |-> <<"C","a","s","e"," ","T","y","p","e">>, f |-> "type"]

H_Link ==
  [h |-> <<"L","i","n","k">>, f |-> "link"]

H_Address ==
  [h |-> <<"A","d","d","r","e","s","s">>, f |-> "addr"]

H_CaseNo ==
  [h |-> <<"C","a","s","e"," ","N","o">>, f |-> "num"]

H_CourtType ==
  [h |-> <<"C","o","u","r","t"," ","T","y","p","e">>, f |-> "court"]

H_OldStatus ==
  [h |-> <<" ","O","l","d"," ","S","t","a","t","u","s">>, f |-> "status2"]

H_FilingDate ==
  [h |-> <<"F","i","l","i","n","g","\n","D","a","t","e">>, f |-> "date"]

R1 == [ num |-> <<"1","A">>,
        status |-> <<"E","n","t","e","r","e","d">>,
        status2 |-> <<"R","e","n","e","w","e","d">>,
        amount |-> <<"$","5","0",",","0","0","0">>,
        date |-> <<"0","1","/","0","1","/","2","0","2","0">>,
        court |-> <<"C","i","r","c","u","i","t">>,
        type |-> <<"C","i","v","i","l">>,
        link |-> <<"h","t","t","p",":","/","/","x">>,
        addr |-> <<"1"," ","M","a","i","n">> ]

R2 == [ num |-> <<"1","B">>,
        status |-> <<"R","e","n","e","w","e","d">>,
        status2 |-> <<"E","n","t","e","r","e","d">>,
        amount |-> <<"$","5",",","0","0","0">>,
        date |-> <<"0","1","/","0","1","/","2","0","2","0">>,
        court |-> <<"D","i","s","t","r","i","c","t">>,
        type |-> <<"L","i","e","n">>,
        link |-> <<>>,
        addr |-> <<>> ]

R3 == [ num |-> <<>>,
        status |-> <<" ","e","n","t","e","r","e","d"," ">>,
        status2 |-> <<"U","n","s","a","t","i","s","f","i","e","d">>,
        amount |-> <<"$","2","5",",","0","0","0",".","0","0">>,
        date |-> <<"n","/","a">>,
        court |-> <<" ","c","i","r","c","u","i","t">>,
        type |-> <<"c","i","v","i","l">>,
        link |-> <<"h","t","t","p",":","/","/","y">>,
        addr |-> <<"2"," ","E","l","m">> ]

R4 == [ num |-> <<"1","D">>,
        status |-> <<"E","N","T","E","R","E","D">>,
        status2 |-> <<"E","n","t","e","r","e","d">>,
        amount |-> <<"$","2","4",",","9","9","9",".","9","9">>,
        date |-> <<"1","3","/","0","1","/","2","0","2","0">>,
        court |-> <<>>,
        type |-> <<"C","i","v","i","l">>,
        link |-> <<>>,
        addr |-> <<>> ]

RowPalette == {R1, R2, R3, R4}

\* the largest number of data rows of a sheet
MaxRows == 2

\* the largest number of widgets the user moves off their defaults before
\* pressing "Apply Filters"
MaxChanged == 1

\* the largest number of header columns of a sheet of SpecMap
MaxCols == 3

\* the largest number of filter passes of a session of SpecSession
MaxPasses == 3

SeqsUpTo(S, n) == UNION {[1..k -> S] : k \in 1..n}

\* the header rows of Spec: the scenario of the spec's section 8; all eight
\* fields in canonical order; the fields in another order with the case
\* number unmapped; no amount and no date column; two status columns
Layouts ==
  { <<H_CaseNumber, H_Status, H_Amount, H_Date>>,
    <<H_CaseNumber, H_Status, H_Amount, H_Date, H_Court, H_Type, H_Link, H_Address>>,
    <<H_Link, H_Type, H_Court, H_Date, H_Amount, H_Status, H_CaseNo>>,
    <<H_CaseNumber, H_Status, H_Court, H_Type>>,
    <<H_Status, H_CaseNumber, H_Amount, H_FilingDate, H_OldStatus>> }

HeaderPalette ==
  {H_CaseNumber, H_Status, H_OldStatus, H_Amount, H_Date, H_FilingDate,
   H_CourtType, H_CaseNo}

\* pandas addresses a column by its name: the model loads sheets whose
\* normalized headers are pairwise distinct
DistinctHeaders(lay) ==
  \A i, j \in DOMAIN lay :
    i # j => normalize_column(lay[i].h) # normalize_column(lay[j].h)

\* sheet.get_all_values(): the header row, then one row of cells per record
Grid(lay, rows) ==
  << [j \in DOMAIN lay |-> lay[j].h] >>
  \o [i \in DOMAIN rows |-> [j \in DOMAIN lay |-> rows[i][lay[j].f]]]

Today == <<2025, 6, 30>>

\* the widgets as the page first shows them
Defaults ==
  [status |-> S_All, court |-> S_All, type |-> S_All, amount |-> amount_opts[2],
   start |-> <<2014, 1, 1>>, end |-> Today]

\* the dates the user picks; a NiceGUI date picker can also be cleared
StartChoices(v) ==
  {<<2014, 1, 1>>, <<2020, 1, 5>>} \cup (IF v = "modern" THEN {None} ELSE {})

EndChoices(v) ==
  {Today, <<2020, 1, 5>>} \cup (IF v = "modern" THEN {None} ELSE {})

Changed(c) == {f \in DOMAIN c : c[f] # Defaults[f]}

\* what the user can set the widgets to before a pass
Selections(v, frame, m) ==
  {c \in [status : Range(status_values),
          court : {S_All} \cup OptionValues(v, frame, m, "court_system"),
          type : {S_All} \cup OptionValues(v, frame, m, "case_type"),
          amount : Range(amount_opts),
          start : StartChoices(v),
          end : EndChoices(v)] : Cardinality(Changed(c)) <= MaxChanged}

\* the selections a session of SpecSession repeats and alternates
SessionSelections ==
  { Defaults,
    [Defaults EXCEPT !.status = S_Entered],
    [Defaults EXCEPT !.amount = S_All],
    [Defaults EXCEPT !.amount = amount_opts[3], !.start = <<2020, 1, 5>>] }

(***************************************************************************)
(* The state of one session.                                               *)
(***************************************************************************)
VARIABLES
  variant,     \* "maryland" or "modern": which script runs
  nat_cmp,     \* how the installed pandas compares NaT with a date
  sheet,       \* the grid the spreadsheet source holds
  pc,          \* "start", "loaded", "ready" or "halted"
  df,          \* the module-level table
  mapping,     \* the module-level field mapping
  table_cols,  \* modern: the names of the table's columns
  table_rows,  \* the rows on the page
  result,      \* the last filter pass: its criteria and what it produced
  passes,      \* the number of filter passes run
  errors,      \* the number of error reports made
  remembered   \* history: one earlier pass, kept to compare a later one with

vars == <<variant, nat_cmp, sheet, pc, df, mapping, table_cols, table_rows,
          result, passes, errors, remembered>>

NoCriteria ==
  [status |-> <<>>, court |-> <<>>, type |-> <<>>, amount |-> <<>>,
   start |-> None, end |-> None]

NoResult ==
  [status |-> "none", criteria |-> NoCriteria, kept |-> <<>>, columns |-> <<>>,
   rows |-> <<>>]

NotRemembered == [pass |-> NoResult, between |-> FALSE]

InitWith(lays, rowsets, nats) ==
  /\ variant \in {"maryland", "modern"}
  /\ nat_cmp \in (IF variant = "modern" THEN nats ELSE {"raises"})
  /\ \E lay \in lays, rows \in rowsets : sheet = Grid(lay, rows)
  /\ pc = "start"
  /\ df = NoFrame
  /\ mapping = <<>>
  /\ table_cols = <<>>
  /\ table_rows = <<>>
  /\ result = NoResult
  /\ passes = 0
  /\ errors = 0
  /\ remembered = NotRemembered

Init == InitWith(Layouts, SeqsUpTo(RowPalette, MaxRows), {"raises", "false"})

\* an error handler that lets the script run on
ContinueAfterError(v) == "loaded"

\* maryland: st.error(...) then st.stop(); modern: the exception leaves the
\* module-level call, and the script ends before ui.run()
AfterDownloadError(v) == "halted"

\* df, mapping = load_and_map(), the download succeeding
LoadAndMap ==
  /\ pc = "start"
  /\ LET lm == load_and_map(sheet)
     IN  df' = lm[1] /\ mapping' = lm[2]
  /\ pc' = "loaded"
  /\ UNCHANGED <<variant, nat_cmp, sheet, table_cols, table_rows, result,
                 passes, errors, remembered>>

\* download_sheet_csv raising: the fetch or the authentication fails
DownloadFails ==
  /\ pc = "start"
  /\ errors' = errors + 1
  /\ pc' = AfterDownloadError(variant)
  /\ UNCHANGED <<variant, nat_cmp, sheet, df, mapping, table_cols, table_rows,
                 result, passes, remembered>>

\* maryland, between the load and the page: the status column is normalized
SetUpMaryland ==
  /\ pc = "loaded" /\ variant = "maryland"
  /\ df' = normalize_case_status(df, mapping)
  /\ pc' = "ready"
  /\ UNCHANGED <<variant, nat_cmp, sheet, mapping, table_cols, table_rows,
                 result, passes, errors, remembered>>

\* modern, between the load and ui.run(): the table's columns are built
SetUpModern ==
  /\ pc = "loaded" /\ variant = "modern"
  /\ table_cols' = DisplayKeys(mapping)
  /\ pc' = "ready"
  /\ UNCHANGED <<variant, nat_cmp, sheet, df, mapping, table_rows, result,
                 passes, errors, remembered>>

\* a pass that filters the module-level table itself
FilteredInPlace(frame, res) ==
  IF res.raised THEN frame
  ELSE [frame EXCEPT !.data = [j \in DOMAIN res.kept |-> frame.data[res.kept[j]]]]

\* d = df.copy(): a pass works on a copy, df stays as it is
FrameAfterPass(frame, res) == frame

\* what a pass with outcome res at criteria c leaves behind
Record(c, res) ==
  /\ result' = [status |-> IF res.raised THEN "raised" ELSE "ok",
                criteria |-> c, kept |-> res.kept, columns |-> res.columns,
                rows |-> res.rows]
  /\ table_rows' = IF res.raised THEN table_rows ELSE res.rows
  /\ df' = FrameAfterPass(df, res)
  /\ passes' = passes + 1
  /\ remembered' =
       IF remembered.pass.status = "none" THEN remembered
       ELSE [remembered EXCEPT
               !.between = @ \/ c # remembered.pass.criteria]
  /\ UNCHANGED <<variant, nat_cmp, sheet, pc, mapping, table_cols, errors>>

\* maryland: the "Apply Filters" button with the widgets at c
ApplyFilters(c) ==
  /\ pc = "ready" /\ variant = "maryland"
  /\ Record(c, apply_filters(df, mapping, c))

\* modern: the click handler of apply_btn with the widgets at c
ApplyFiltersHandler(c) ==
  /\ pc = "ready" /\ variant = "modern"
  /\ Record(c, apply_filters_handler(df, mapping, c, nat_cmp, table_cols))

\* history only: the pass just run is the one later passes are compared with
Remember ==
  /\ result.status # "none"
  /\ remembered.pass.status = "none"
  /\ remembered' = [pass |-> result, between |-> FALSE]
  /\ UNCHANGED <<variant, nat_cmp, sheet, pc, df, mapping, table_cols,
                 table_rows, result, passes, errors>>

\* Spec: every sheet of the palettes, and the first pass of its session at
\* every selection
FirstApplyFilters ==
  /\ passes = 0
  /\ \E c \in Selections(variant, df, mapping) : ApplyFilters(c)

FirstApplyFiltersHandler ==
  /\ passes = 0
  /\ \E c \in Selections(variant, df, mapping) : ApplyFiltersHandler(c)

Next ==
  \/ LoadAndMap
  \/ DownloadFails
  \/ SetUpMaryland
  \/ SetUpModern
  \/ FirstApplyFilters
  \/ FirstApplyFiltersHandler

Spec == Init /\ [][Next]_vars

(***************************************************************************)
(* SpecMap: every header row of at most MaxCols headers of the palette, in *)
(* every order, loaded and shown once with the widgets at their defaults.  *)
(***************************************************************************)
InitMap ==
  InitWith({lay \in SeqsUpTo(HeaderPalette, MaxCols) : DistinctHeaders(lay)},
           {<<R1, R3>>}, {"raises"})

DefaultApplyFilters == passes = 0 /\ ApplyFilters(Defaults)

DefaultApplyFiltersHandler == passes = 0 /\ ApplyFiltersHandler(Defaults)

NextMap ==
  \/ LoadAndMap
  \/ DownloadFails
  \/ SetUpMaryland
  \/ SetUpModern
  \/ DefaultApplyFilters
  \/ DefaultApplyFiltersHandler

SpecMap == InitMap /\ [][NextMap]_vars

(***************************************************************************)
(* SpecSession: a session of up to MaxPasses filter passes over one of a   *)
(* few sheets, the user alternating between the selections of              *)
(* SessionSelections.                                                      *)
(***************************************************************************)
SessionLayouts ==
  { <<H_CaseNumber, H_Status, H_Amount, H_Date, H_Court, H_Type, H_Link, H_Address>>,
    <<H_CaseNumber, H_Status, H_Court, H_Type>> }

SessionRows == { <<R1, R2>>, <<R3, R4>>, <<R1, R4>> }

InitSession == InitWith(SessionLayouts, SessionRows, {"raises", "false"})

RepeatApplyFilters ==
  /\ passes < MaxPasses
  /\ \E c \in SessionSelections : ApplyFilters(c)

RepeatApplyFiltersHandler ==
  /\ passes < MaxPasses
  /\ \E c \in SessionSelections : ApplyFiltersHandler(c)

NextSession ==
  \/ LoadAndMap
  \/ DownloadFails
  \/ SetUpMaryland
  \/ SetUpModern
  \/ RepeatApplyFilters
  \/ RepeatApplyFiltersHandler
  \/ Remember

SpecSession == InitSession /\ [][NextSession]_vars

(***************************************************************************)
(* Properties.                                                             *)
(***************************************************************************)
Loaded == pc \in {"loaded", "ready"}

\* the text the spreadsheet holds for row i, column j of the table
SourceCell(i, j) == sheet[i + 1][j]

\* the value a produced row shows for field k: maryland labels a value with
\* the column's header, modern with the field key
Shown(row, k) ==
  IF variant = "maryland" THEN Get(row, Get(mapping, k)) ELSE Get(row, k)

\* what a pass of the running variant produces at criteria c
Outcome(c) ==
  IF variant = "maryland" THEN apply_filters(df, mapping, c)
  ELSE apply_filters_handler(df, mapping, c, nat_cmp, table_cols)

\* criteria c with the criterion on field k switched off
Without(c, k) ==
  CASE k = "case_status" -> [c EXCEPT !.status = S_All]
    [] k = "court_system" -> [c EXCEPT !.court = S_All]
    [] k = "case_type" -> [c EXCEPT !.type = S_All]
    [] k = "judgment_amount" -> [c EXCEPT !.amount = S_All]
    [] k = "entry_date" -> [c EXCEPT !.start = None, !.end = None]

FilterFields ==
  {"case_status", "court_system", "case_type", "judgment_amount", "entry_date"}

ParsedDate(i) == parse_date_flexible(Cell(df, i, Get(mapping, "entry_date")))

\* C1: in a pass with a date bound set, no row whose entry-date cell does not
\* parse is in the output, whatever the other rows' dates are.
C1_UnparsedDateNeverShown ==
  ( /\ result.status = "ok"
    /\ Mapped(mapping, "entry_date")
    /\ (result.criteria.start # None \/ result.criteria.end # None) )
  => \A n \in DOMAIN result.kept : ParsedDate(result.kept[n]) # None

\* C2: a filter on a field the mapper found no header for is skipped: the
\* pass keeps the rows it keeps with that field's criterion switched off.
C2_UnmappedFieldExcludesNoRow ==
  result.status # "none"
  => \A k \in FilterFields :
       ~Mapped(mapping, k) => result.kept = Outcome(Without(result.criteria, k)).kept

MappedKeys == {k \in Range(order) : Mapped(mapping, k)}

\* the names under which a produced row may hold a value when only mapped
\* fields are shown
MappedNames ==
  IF variant = "maryland" THEN {Get(mapping, k) : k \in MappedKeys} ELSE MappedKeys

RowNames(row) == {row[n][1] : n \in DOMAIN row}

\* C3 as stated: every field of every row a pass produces is a field of the
\* mapping; a row has a case_number only if case_number is mapped.
C3_OnlyMappedFields ==
  result.status = "ok"
  => \A j \in DOMAIN result.rows : RowNames(result.rows[j]) \subseteq MappedNames

\* C3 as amended: every field of every row a pass produces is a field of the
\* mapping, except that a row of the modern variant always has a case_number
\* entry; the columns shown are fields of the mapping.
C3_MappedFieldsOrRowKey ==
  result.status = "ok"
  => /\ Range(result.columns) \subseteq MappedKeys
     /\ \A j \in DOMAIN result.rows :
          /\ RowNames(result.rows[j]) \subseteq
               MappedNames \cup (IF variant = "modern" THEN {"case_number"} ELSE {})
          /\ variant = "modern" => "case_number" \in RowNames(result.rows[j])

C3_Witness ==
  /\ result.status = "ok"
  /\ variant = "modern"
  /\ ~Mapped(mapping, "case_number")
  /\ \E j \in DOMAIN result.rows :
       /\ "case_number" \in RowNames(result.rows[j])
       /\ Get(result.rows[j], "case_number") = df.data[result.kept[j]][1]

ScenarioSheet ==
  Grid(<<H_CaseNumber, H_Status, H_Amount, H_Date>>, <<R1, R2>>)

ScenarioCriteria == [Defaults EXCEPT !.status = S_Entered]

\* C4: a surviving row shows its amount as currency text and its date as
\* YYYY-MM-DD, or as the empty string when the cell does not parse; the
\* scenario of the spec produces the first row alone, with "$50,000.00" and
\* "2020-01-01".
C4_DisplayedAmountAndDate ==
  result.status = "ok"
  => /\ \A n \in DOMAIN result.rows :
          LET i == result.kept[n]
              row == result.rows[n]
          IN  /\ Mapped(mapping, "judgment_amount") =>
                   Shown(row, "judgment_amount") =
                     FormatCurrency(parse_amount(
                       SourceCell(i, ColumnOf(df, Get(mapping, "judgment_amount")))))
              /\ Mapped(mapping, "entry_date") =>
                   Shown(row, "entry_date") =
                     (IF ParsedDate(i) # None THEN strftime(ParsedDate(i)) ELSE <<>>)
     /\ (sheet = ScenarioSheet /\ result.criteria = ScenarioCriteria) =>
          /\ result.kept = <<1>>
          /\ Shown(result.rows[1], "judgment_amount") =
               <<"$","5","0",",","0","0","0",".","0","0">>
          /\ Shown(result.rows[1], "entry_date") =
               <<"2","0","2","0","-","0","1","-","0","1">>

\* the equality predicate of C5 on the cell of row i under field k
EqualsSelection(i, k, sel) ==
  sel = S_All \/ lower(strip(Cell(df, i, Get(mapping, k)))) = lower(strip(sel))

\* the amount predicate of C5 on row i
MeetsThreshold(i, sel) ==
  sel = S_All
  \/ AmountAtLeast(parse_amount(Cell(df, i, Get(mapping, "judgment_amount"))),
                   Threshold(sel))

\* the date range excludes no row of the table
DateRangeIdle(c) ==
  \/ c.start = None /\ c.end = None
  \/ /\ Mapped(mapping, "entry_date")
     /\ \A i \in DOMAIN df.data :
          /\ ParsedDate(i) # None
          /\ c.start # None => DateLE(c.start, ParsedDate(i))
          /\ c.end # None => DateLE(ParsedDate(i), c.end)

\* C5: with status, court, type and amount mapped, a row passes the non-date
\* filters exactly when its status, court and type equal the selections
\* (trimmed, case ignored; "All" switches a predicate off) and its parsed
\* amount is at least the threshold ("All": no comparison).
C5_NonDatePredicates ==
  ( /\ result.status = "ok"
    /\ \A k \in FilterFields \ {"entry_date"} : Mapped(mapping, k)
    /\ DateRangeIdle(result.criteria) )
  => \A i \in DOMAIN df.data :
       i \in Range(result.kept)
       <=> /\ EqualsSelection(i, "case_status", result.criteria.status)
           /\ EqualsSelection(i, "court_system", result.criteria.court)
           /\ EqualsSelection(i, "case_type", result.criteria.type)
           /\ MeetsThreshold(i, result.criteria.amount)

\* the headers, by position, that satisfy the rule of key k
Matching(k) == {j \in DOMAIN df.columns : Rule(k, df.columns[j])}

Max(S) == CHOOSE x \in S : \A y \in S : y <= x

\* C6: the mapping holds a key exactly when some normalized header satisfies
\* the key's rule, holds it once, and maps it to the last such header; so a
\* header that satisfies several rules is the value of every key it is the
\* last match of.
C6_LastMatchWins ==
  Loaded
  => /\ \A i, j \in DOMAIN mapping : i # j => mapping[i][1] # mapping[j][1]
     /\ Keys(mapping) \subseteq Range(RuleOrder)
     /\ \A k \in Range(RuleOrder) :
          /\ k \in Keys(mapping) <=> Matching(k) # {}
          /\ Matching(k) # {} => Get(mapping, k) = df.columns[Max(Matching(k))]

C6_Witness ==
  /\ Loaded
  /\ Cardinality(Matching("case_status")) = 2
  /\ Get(mapping, "court_system") # None
  /\ Get(mapping, "court_system") = Get(mapping, "case_type")

\* C7: a session whose download failed has reported the failure once, has
\* halted, and has run no filter pass and shown no row.
C7_FetchFailureIsFatal ==
  errors > 0
  => /\ errors = 1
     /\ pc = "halted"
     /\ passes = 0
     /\ result.status = "none"
     /\ table_rows = <<>>
     /\ ~ENABLED NextSession

C7_Witness == errors = 1 /\ pc = "halted"

\* C8: a pass at the criteria of an earlier pass of the session produces what
\* that pass produced, whatever passes ran in between.
C8_SameCriteriaSameRows ==
  ( /\ remembered.pass.status # "none"
    /\ result.criteria = remembered.pass.criteria )
  => result = remembered.pass

C8_Witness ==
  /\ remembered.between
  /\ result.criteria = remembered.pass.criteria
  /\ result.rows # <<>>
  /\ passes >= 3

\* C9 as stated: once loaded, every cell of the table is the text the
\* spreadsheet holds, and the mapping is the one computed from the headers.
C9_TableEqualsSource ==
  Loaded
  => /\ df.data = Tail(sheet)
     /\ mapping = load_and_map(sheet)[2]

\* the cell the table holds for row i, column j once the page is set up:
\* maryland holds the status column trimmed and lower-cased
HeldCell(i, j) ==
  IF /\ variant = "maryland"
     /\ pc = "ready"
     /\ Mapped(mapping, "case_status")
     /\ j = ColumnOf(df, Get(mapping, "case_status"))
  THEN lower(strip(SourceCell(i, j)))
  ELSE SourceCell(i, j)

\* C9 as amended: once loaded, the mapping is the one computed from the
\* headers and every cell of the table is the text the spreadsheet holds,
\* except that the maryland set-up trims and lower-cases the cells of the
\* mapped status column; no filter pass changes either.
C9_TableEqualsSourceButStatus ==
  Loaded
  => /\ mapping = load_and_map(sheet)[2]
     /\ df.columns = normalize_columns(sheet[1])
     /\ Len(df.data) = Len(sheet) - 1
     /\ \A i \in DOMAIN df.data :
          /\ Len(df.data[i]) = Len(sheet[i + 1])
          /\ \A j \in DOMAIN df.data[i] : df.data[i][j] = HeldCell(i, j)

C9_Witness ==
  /\ variant = "maryland"
  /\ passes >= 2
  /\ result.rows # <<>>
  /\ \E i \in DOMAIN df.data : \E j \in DOMAIN df.data[i] :
       df.data[i][j] # SourceCell(i, j)

Position(k) == CHOOSE n \in DOMAIN order : order[n] = k

\* C10: the fields a pass shows are the mapped fields in the canonical order,
\* whatever the order of the headers; a maryland row holds its values in that
\* order, a modern row holds a value for every column of the table.
C10_CanonicalOrder ==
  result.status = "ok"
  => /\ Range(result.columns) = MappedKeys
     /\ \A a, b \in DOMAIN result.columns :
          a < b => Position(result.columns[a]) < Position(result.columns[b])
     /\ \A j \in DOMAIN result.rows :
          IF variant = "maryland"
          THEN /\ Len(result.rows[j]) = Len(result.columns)
               /\ \A n \in DOMAIN result.columns :
                    result.rows[j][n][1] = Get(mapping, result.columns[n])
          ELSE Range(result.columns) \subseteq RowNames(result.rows[j])

C10_Witness ==
  /\ result.status = "ok"
  /\ result.rows # <<>>
  /\ Len(result.columns) >= 3
  /\ MappingOrderKeys(mapping) # result.columns

=============================================================================
